---------------------------- MODULE Spec2Model ----------------------------
(***************************************************************************)
(* The MSSQL dialect of geoalchemy2 (geoalchemy2/admin/dialects/mssql.py): *)
(*   - the reflection adapter  reflect_geometry_column,                    *)
(*   - the registrar of method-style compilation rules                     *)
(*     register_mssql_mapping, and                                         *)
(*   - the compilation rules of the from-text and from-binary             *)
(*     constructors.                                                       *)
(*                                                                         *)
(* Values the database returns are modelled as tagged Python values; the   *)
(* strings whose case matters are sequences of one-character strings so    *)
(* that str.lower() and str.upper() are computed character by character.   *)
(* Rendered SQL is a TLA+ string built by concatenation, as str.format     *)
(* and the f-strings of the source build it.                               *)
(***************************************************************************)
EXTENDS Integers, Sequences, FiniteSets, TLC

VARIABLES
    column_info,   \* the column metadata record being reflected
    pc,            \* "pending": the inspector has not yet called the hook
    last,          \* what the most recent reflect call received and did
    registry,      \* the mssql entry of each function's compiler dispatcher
    compiled       \* what the most recent registration or compilation did

vars == <<column_info, pc, last, registry, compiled>>

(***************************************************************************)
(* Bounds of the model.                                                    *)
(***************************************************************************)
MaxRows == 2
MaxIndexRows == 1
MaxMappingLen == 2
MaxArgs == 2
MaxSrid == 1

(***************************************************************************)
(* Python strings, character by character.                                 *)
(***************************************************************************)
LowerAlphabet ==
    <<"a","b","c","d","e","f","g","h","i","j","k","l","m",
      "n","o","p","q","r","s","t","u","v","w","x","y","z">>

UpperAlphabet ==
    <<"A","B","C","D","E","F","G","H","I","J","K","L","M",
      "N","O","P","Q","R","S","T","U","V","W","X","Y","Z">>

LowerChar(c) ==
    IF \E i \in 1..Len(UpperAlphabet) : UpperAlphabet[i] = c
    THEN LowerAlphabet[CHOOSE i \in 1..Len(UpperAlphabet) : UpperAlphabet[i] = c]
    ELSE c

UpperChar(c) ==
    IF \E i \in 1..Len(LowerAlphabet) : LowerAlphabet[i] = c
    THEN UpperAlphabet[CHOOSE i \in 1..Len(LowerAlphabet) : LowerAlphabet[i] = c]
    ELSE c

\* str.lower()
StrLower(s) == [i \in 1..Len(s) |-> LowerChar(s[i])]

\* str.upper()
StrUpper(s) == [i \in 1..Len(s) |-> UpperChar(s[i])]

\* Tagged Python values: a str or None.
PyStr(s) == [t |-> "str", v |-> s]
PyNone == [t |-> "None", v |-> <<>>]
PyInt(n) == [t |-> "int", v |-> <<n>>]

\* str(x): the identity on a str, the text None on None.
str(x) == IF x.t = "None" THEN <<"N","o","n","e">> ELSE x.v


(***************************************************************************)
(* The reflection adapter.                                                 *)
(***************************************************************************)
_POSSIBLE_TYPES ==
    << <<"g","e","o","m","e","t","r","y">>,
       <<"p","o","i","n","t">>,
       <<"l","i","n","e","s","t","r","i","n","g">>,
       <<"p","o","l","y","g","o","n">>,
       <<"m","u","l","t","i","p","o","i","n","t">>,
       <<"m","u","l","t","i","l","i","n","e","s","t","r","i","n","g">>,
       <<"m","u","l","t","i","p","o","l","y","g","o","n">>,
       <<"g","e","o","m","e","t","r","y","c","o","l","l","e","c","t","i","o","n">> >>

\* x in lst, for a Python list: some element equals x.
InList(x, lst) == \E i \in 1..Len(lst) : lst[i] = x

\* Type objects a reflected column can carry before the hook runs.
NullType == [cls |-> "NullType"]
IntegerType == [cls |-> "Integer"]
GeographyType == [cls |-> "Geography"]

\* Geometry(geometry_type=..., srid=..., spatial_index=..., nullable=...,
\*          _spatial_index_reflected=...)
Geometry(geometry_type, srid, spatial_index, nullable, reflected) ==
    [cls |-> "Geometry",
     geometry_type |-> geometry_type,
     srid |-> srid,
     spatial_index |-> spatial_index,
     nullable |-> nullable,
     _spatial_index_reflected |-> reflected]

\* A Geometry declared by the dialect, not produced by this hook.
DeclaredGeometry ==
    Geometry(StrUpper(_POSSIBLE_TYPES[1]), PyInt(-1), TRUE, TRUE, FALSE)

\* isinstance(column_info.get("type"), (Geometry, NullType))
IsGeometryOrNullType(type) == type.cls \in {"Geometry", "NullType"}

\* Variant: Result.first() semantics, the first of several rows is taken.
one_first(rows) ==
    IF Len(rows) = 0 THEN [raised |-> "NoResultFound", row |-> <<>>]
    ELSE [raised |-> "none", row |-> rows[1]]

\* Result.one(): exactly one row, else the query-result error.
one(rows) ==
    IF Len(rows) = 0 THEN [raised |-> "NoResultFound", row |-> <<>>]
    ELSE IF Len(rows) > 1 THEN [raised |-> "MultipleResultsFound", row |-> <<>>]
    ELSE [raised |-> "none", row |-> rows[1]]

\* Result.scalar(): first column of the first row, None without a row.
scalar(rows) == IF Len(rows) = 0 THEN PyNone ELSE rows[1]

\* Variant: the comparison without .lower().
IsNullable_cased(nullable_str) == str(nullable_str) = <<"Y","E","S">>

\* is_nullable = str(nullable_str).lower() == "yes"
IsNullable(nullable_str) == StrLower(str(nullable_str)) = <<"y","e","s">>

\* Variant: only an empty type name is rejected.
NotPossibleType_emptyOnly(geometry_type) == geometry_type = <<>>

\* geometry_type not in _POSSIBLE_TYPES
NotPossibleType(geometry_type) == ~InList(geometry_type, _POSSIBLE_TYPES)

\* Variant: the comparison without .lower().
IsSpatialIndex_cased(spatial_index_res) ==
    str(spatial_index_res) = <<"s","p","a","t","i","a","l">>

\* spatial_index = str(spatial_index_res).lower() == "spatial"
IsSpatialIndex(spatial_index_res) ==
    StrLower(str(spatial_index_res)) = <<"s","p","a","t","i","a","l">>

\* The descriptor assigned into column_info["type"].
ReflectedGeometry(geometry_type, srid, spatial_index_res, is_nullable) ==
    Geometry(StrUpper(geometry_type), srid,
             IsSpatialIndex(spatial_index_res), is_nullable, TRUE)

\* reflect_geometry_column(inspector, table, column_info), the database
\* answering the metadata query with rows and the index-statistics query
\* with index_rows.  The result is the record after the call, the queries
\* issued in order, and the exception raised, if any.
reflect_geometry_column(info, rows, index_rows) ==
    IF ~IsGeometryOrNullType(info.type)
    THEN [column_info |-> info, queries |-> <<>>, raised |-> "none"]
    ELSE LET res == one(rows) IN
         IF res.raised # "none"
         THEN [column_info |-> info, queries |-> <<"COLUMNS">>,
               raised |-> res.raised]
         ELSE LET geometry_type == res.row.DATA_TYPE
                  srid == res.row.SRS_ID
                  is_nullable == IsNullable(res.row.IS_NULLABLE)
              IN  IF NotPossibleType(geometry_type)
                  THEN [column_info |-> info, queries |-> <<"COLUMNS">>,
                        raised |-> "none"]
                  ELSE [column_info |->
                            [info EXCEPT !.type =
                                ReflectedGeometry(geometry_type, srid,
                                    scalar(index_rows), is_nullable)],
                        queries |-> <<"COLUMNS", "STATISTICS">>,
                        raised |-> "none"]

(***************************************************************************)
(* What the database can answer.                                           *)
(***************************************************************************)
\* Every spelling of w that differs from it in letter case only.
RECURSIVE CaseVariants(_)
CaseVariants(w) ==
    IF w = <<>> THEN {<<>>}
    ELSE {<<c>> \o r : c \in {Head(w), UpperChar(Head(w))},
                       r \in CaseVariants(Tail(w))}

\* Lower case, upper case, and capitalised.
Capitalize(w) == <<UpperChar(Head(w))>> \o Tail(w)
Spellings(w) == {w, StrUpper(w), Capitalize(w)}

\* DATA_TYPE values: the recognised names in three spellings, and names
\* of other engine types.
OtherTypeNames == {<<"g","e","o","g","r","a","p","h","y">>, <<"i","n","t">>, <<"p","o","i","n","t","s">>}
TypeNames ==
    UNION {Spellings(_POSSIBLE_TYPES[i]) : i \in 1..Len(_POSSIBLE_TYPES)}
        \cup OtherTypeNames

\* SRS_ID values: NULL for an empty table, else the stored srid.
SridValues == {PyNone, PyInt(0), PyInt(4326)}

\* IS_NULLABLE values.
NullableValues ==
    {PyStr(v) : v \in CaseVariants(<<"y","e","s">>)}
        \cup {PyStr(<<"N","O">>), PyStr(<<"n","o">>), PyStr(<<"y","e">>),
              PyStr(<<>>), PyNone}

\* INDEX_TYPE values.
IndexTypeValues ==
    {PyStr(v) : v \in Spellings(<<"s","p","a","t","i","a","l">>)}
        \cup {PyStr(<<"s","P","a","T","i","A","l">>), PyStr(<<"C","L","U","S","T","E","R","E","D">>),
              PyStr(<<"s","p","a","t","i","a">>), PyNone}

Rows ==
    [DATA_TYPE : TypeNames, SRS_ID : SridValues, IS_NULLABLE : NullableValues]

\* Rows a metadata query that matches several columns returns.
SampleRows ==
    {[DATA_TYPE |-> n, SRS_ID |-> PyInt(4326), IS_NULLABLE |-> PyStr(<<"Y","E","S">>)]
        : n \in {_POSSIBLE_TYPES[2], <<"i","n","t">>}}

\* Result sets of the metadata query: none, one, or several rows.
MetadataResults ==
    {<<>>} \cup {<<r>> : r \in Rows}
        \cup UNION {[1..n -> SampleRows] : n \in 2..MaxRows}

\* Result sets of the index-statistics query.
IndexResults == UNION {[1..n -> IndexTypeValues] : n \in 0..MaxIndexRows}

\* Types of a column as the dialect hands it to the hook.
ColumnTypes == {NullType, DeclaredGeometry, IntegerType, GeographyType}

NoCall == [op |-> "none"]

(***************************************************************************)
(* Actions of the reflection pass.                                         *)
(***************************************************************************)
\* The inspector produces the record of the next column.
inspect_column ==
    /\ pc = "done"
    /\ \E type \in ColumnTypes :
           column_info' = [name |-> "geom", type |-> type]
    /\ pc' = "pending"
    /\ last' = NoCall
    /\ UNCHANGED <<registry, compiled>>

\* The column_reflect event calls the hook once for the column.
reflect ==
    /\ pc = "pending"
    /\ \E rows \in MetadataResults, index_rows \in IndexResults :
           LET r == reflect_geometry_column(column_info, rows, index_rows) IN
           /\ column_info' = r.column_info
           /\ last' = [op |-> "reflect", before |-> column_info,
                       rows |-> rows,
                       index_rows |-> IF Len(r.queries) = 2 THEN index_rows
                                      ELSE <<>>,
                       queries |-> r.queries, raised |-> r.raised]
    /\ pc' = "done"
    /\ UNCHANGED <<registry, compiled>>

(***************************************************************************)
(* The compilation adapter.                                                *)
(***************************************************************************)
\* The classes of geoalchemy2.functions that compilation is modelled for.
Functions ==
    {"ST_AsBinary", "ST_AsEWKB", "ST_AsText",
     "ST_GeomFromText", "ST_GeomFromEWKT", "ST_GeomFromWKB", "ST_GeomFromEWKB"}

\* The rule a function class dispatches to when compiling for mssql.
GenericRule == [kind |-> "generic", fn |-> ""]
MethodRule(fn) == [kind |-> "method", fn |-> fn]
GeomFromTextRule == [kind |-> "GeomFromText", fn |-> ""]
GeomFromWKBRule == [kind |-> "GeomFromWKB", fn |-> ""]

\* Variant: a rule already in force is kept.
compiles_setdefault(reg, cls, rule) ==
    [reg EXCEPT ![cls] = IF reg[cls].kind = "generic" THEN rule ELSE reg[cls]]

\* compiles(cls, "mssql")(rule): the class's mssql entry is set to rule.
compiles(reg, cls, rule) == [reg EXCEPT ![cls] = rule]

\* _compiles_mssql(cls, fn); getattr(functions, cls) raises for a name
\* that is no attribute of the functions module.
_compiles_mssql(reg, cls, fn) ==
    IF cls \notin Functions
    THEN [registry |-> reg, raised |-> "AttributeError"]
    ELSE [registry |-> compiles(reg, cls, MethodRule(fn)), raised |-> "none"]

\* register_mssql_mapping(mapping): the items of the dict in order, each
\* a pair <<cls, fn>>; an exception ends the loop.
RECURSIVE register_mssql_mapping(_, _)
register_mssql_mapping(reg, mapping) ==
    IF mapping = <<>>
    THEN [registry |-> reg, raised |-> "none"]
    ELSE LET r == _compiles_mssql(reg, mapping[1][1], mapping[1][2]) IN
         IF r.raised # "none" THEN r
         ELSE register_mssql_mapping(r.registry, Tail(mapping))

_MSSQL_FUNCTIONS ==
    << <<"ST_AsBinary", "STAsBinary">>, <<"ST_AsEWKB", "STAsBinary">> >>

\* The registry once the module is imported: the default mapping, then
\* the four decorated rules.
ModuleLoad ==
    LET r0 == [f \in Functions |-> GenericRule]
        r1 == register_mssql_mapping(r0, _MSSQL_FUNCTIONS).registry
        r2 == compiles(r1, "ST_GeomFromText", GeomFromTextRule)
        r3 == compiles(r2, "ST_GeomFromEWKT", GeomFromTextRule)
        r4 == compiles(r3, "ST_GeomFromWKB", GeomFromWKBRule)
    IN  compiles(r4, "ST_GeomFromEWKB", GeomFromWKBRule)

\* A bound literal of the expression tree.
Literal(kind, value) == [kind |-> kind, value |-> value]

\* The compiler renders a literal from its value.
RenderLiteral(c) ==
    CASE c.kind = "text" -> "'" \o c.value \o "'"
      [] c.kind = "bytes" -> "0x" \o c.value
      [] c.kind = "memoryview" -> "<memory " \o c.value \o ">"

\* compiler.process(element.clauses): the clauses, comma separated.
RECURSIVE process(_)
process(clauses) ==
    IF Len(clauses) = 0 THEN ""
    ELSE IF Len(clauses) = 1 THEN RenderLiteral(clauses[1])
    ELSE RenderLiteral(clauses[1]) \o ", " \o process(Tail(clauses))

\* memoryview.tobytes()
tobytes(c) == Literal("bytes", c.value)

\* Variant: the native name rendered as a function call.
_compile_mssql_call(element, fn) ==
    [text |-> fn \o "(" \o process(element.clauses) \o ")",
     element |-> element,
     processed |-> element.clauses]

\* The rule _compiles_mssql installs.
_compile_mssql(element, fn) ==
    [text |-> "(" \o process(element.clauses) \o ")." \o fn \o "()",
     element |-> element,
     processed |-> element.clauses]

\* The rendering of a function that has no mssql rule.
CompileGeneric(element) ==
    [text |-> element.name \o "(" \o process(element.clauses) \o ")",
     element |-> element,
     processed |-> element.clauses]

\* Variant: srid 0 is rendered as it is.
GeomFromTextSrid_nonneg(srid) == IF srid >= 0 THEN srid ELSE 4326

\* The srid the from-text rule renders.
GeomFromTextSrid(srid) == IF srid > 0 THEN srid ELSE 4326

_compile_GeomFromText_MsSql(element) ==
    LET identifier == "geography::STGeomFromText"
        text == process(element.clauses)
        srid == element.srid
    IN  [text |-> identifier \o "(" \o text \o ", "
                    \o ToString(GeomFromTextSrid(srid)) \o ")",
         element |-> [element EXCEPT !.identifier = identifier],
         processed |-> element.clauses]

\* Variant: the value is left as it is.
NormalizeWkb_skip(clauses) == clauses

\* The clauses after the first one's memoryview value is made bytes.
NormalizeWkb(clauses) ==
    IF clauses[1].kind = "memoryview"
    THEN [clauses EXCEPT ![1] = tobytes(clauses[1])]
    ELSE clauses

\* Variant: the default of the from-text rule.
GeomFromWKBArgs_default(text, srid) ==
    IF srid > 0 THEN text \o ", " \o ToString(srid) ELSE text \o ", 4326"

\* The argument list the from-binary rule renders.
GeomFromWKBArgs(text, srid) ==
    IF srid > 0 THEN text \o ", " \o ToString(srid) ELSE text

_compile_GeomFromWKB_MsSql(element) ==
    LET identifier == "geography::STGeomFromWKB"
        clauses == NormalizeWkb(element.clauses)
        text == process(clauses)
        srid == element.srid
    IN  [text |-> identifier \o "(" \o GeomFromWKBArgs(text, srid) \o ")",
         element |-> [element EXCEPT !.identifier = identifier,
                                      !.clauses = clauses],
         processed |-> clauses]

\* The compiler's dispatch on the class's mssql rule.
Compile(reg, element) ==
    LET rule == reg[element.name] IN
    CASE rule.kind = "method" -> _compile_mssql(element, rule.fn)
      [] rule.kind = "GeomFromText" -> _compile_GeomFromText_MsSql(element)
      [] rule.kind = "GeomFromWKB" -> _compile_GeomFromWKB_MsSql(element)
      [] rule.kind = "generic" -> CompileGeneric(element)

(***************************************************************************)
(* Inputs of the compilation adapter.                                      *)
(***************************************************************************)
Literals ==
    {Literal("text", "POINT(1 2)"),
     Literal("bytes", "0101"), Literal("memoryview", "0101")}

\* Literals of the arguments after the first.
TrailingLiterals ==
    {Literal("text", "POINT(1 2)"), Literal("memoryview", "0101")}

\* Argument lists: a first argument, then up to MaxArgs - 1 more.
ClauseLists ==
    {<<first>> \o rest :
        first \in Literals,
        rest \in UNION {[1..n -> TrailingLiterals] : n \in 0..(MaxArgs - 1)}}

\* Declared srids: -1 is the srid of a type that declares none.
SridInputs == (-1..MaxSrid) \cup {4326}

ConstructorNames ==
    {"ST_GeomFromText", "ST_GeomFromEWKT", "ST_GeomFromWKB", "ST_GeomFromEWKB"}

Elements ==
    {[name |-> n, identifier |-> n, clauses |-> c, srid |-> s] :
        n \in ConstructorNames, c \in ClauseLists, s \in SridInputs}
    \cup
    {[name |-> n, identifier |-> n, clauses |-> c, srid |-> -1] :
        n \in Functions \ ConstructorNames, c \in ClauseLists}

\* Keys and values of the mappings passed to the registrar; ST_Bogus is
\* no attribute of the functions module.
MappingNames == {"ST_AsBinary", "ST_GeomFromText", "ST_Bogus"}
NativeNames == {"STAsBinary", "STAsText"}

\* A dict has each key once.
Mappings ==
    {m \in UNION {[1..n -> MappingNames \X NativeNames] : n \in 0..MaxMappingLen} :
        \A i, j \in 1..Len(m) : i # j => m[i][1] # m[j][1]}

(***************************************************************************)
(* Actions of the compilation adapter.                                     *)
(***************************************************************************)
register ==
    /\ \E mapping \in Mappings :
           LET r == register_mssql_mapping(registry, mapping) IN
           /\ registry' = r.registry
           /\ compiled' = [op |-> "register", mapping |-> mapping,
                           before |-> registry, raised |-> r.raised]
    /\ UNCHANGED <<column_info, pc, last>>

compile ==
    /\ \E element \in Elements :
           LET r == Compile(registry, element) IN
           compiled' = [op |-> "compile", element |-> element,
                        rule |-> registry[element.name],
                        text |-> r.text, after |-> r.element,
                        processed |-> r.processed]
    /\ UNCHANGED <<column_info, pc, last, registry>>

(***************************************************************************)
(* Specifications.  The two adapters share no state: the reflection pass   *)
(* and the compilation adapter are checked apart.                          *)
(***************************************************************************)
Init ==
    /\ column_info = [name |-> "geom", type |-> NullType]
    /\ pc = "done"
    /\ last = NoCall
    /\ registry = ModuleLoad
    /\ compiled = [op |-> "load"]

NextReflect == inspect_column \/ reflect

NextCompile == register \/ compile

SpecReflect == Init /\ [][NextReflect]_vars

SpecCompile == Init /\ [][NextCompile]_vars

(***************************************************************************)
(* Properties of the reflection adapter (checked under SpecReflect).       *)
(***************************************************************************)
PossibleTypeSet == {_POSSIBLE_TYPES[i] : i \in 1..Len(_POSSIBLE_TYPES)}

\* The hook ran its metadata query and got exactly one row back.
ReflectedOneRow ==
    /\ last.op = "reflect"
    /\ last.queries # <<>>
    /\ Len(last.rows) = 1

\* The hook built a descriptor and assigned it.
DescriptorBuilt == last.op = "reflect" /\ Len(last.queries) = 2

\* C1: when the metadata query returns a type name that matches a
\* recognised name in any letter case, and the column's type is a Geometry
\* or a NullType, the column's type becomes a reflected Geometry whose
\* geometry_type is the upper-cased name.
C1_RecognizedInAnyCase ==
    (ReflectedOneRow
        /\ StrLower(last.rows[1].DATA_TYPE) \in PossibleTypeSet)
    => /\ column_info.type.cls = "Geometry"
       /\ column_info.type._spatial_index_reflected
       /\ column_info.type.geometry_type = StrUpper(last.rows[1].DATA_TYPE)

\* The names spelled exactly as the enumeration spells them become a
\* reflected Geometry of the upper-cased name.
LowerCaseNameReflected ==
    (ReflectedOneRow /\ last.rows[1].DATA_TYPE \in PossibleTypeSet)
    => /\ column_info.type.cls = "Geometry"
       /\ column_info.type._spatial_index_reflected
       /\ column_info.type.geometry_type = StrUpper(last.rows[1].DATA_TYPE)

\* C2: a type name outside the enumeration leaves column_info as it was,
\* without the index-statistics query; and whenever the hook changes
\* column_info, the metadata query returned one row whose type name is in
\* the enumeration.
C2_UnrecognizedUntouched ==
    last.op = "reflect" =>
        /\ (ReflectedOneRow /\ last.rows[1].DATA_TYPE \notin PossibleTypeSet)
              => (column_info = last.before /\ last.queries = <<"COLUMNS">>)
        /\ column_info # last.before
              => (ReflectedOneRow /\ last.rows[1].DATA_TYPE \in PossibleTypeSet)

C2_Witness ==
    /\ ReflectedOneRow
    /\ last.rows[1].DATA_TYPE = <<"g","e","o","g","r","a","p","h","y">>
    /\ last.before.type = NullType
    /\ column_info.type = NullType

\* C3: when the metadata query returns no row or several rows, the
\* query-result error is raised, the index-statistics query is not
\* issued, and column_info is as before the call.
C3_CardinalityErrorPropagates ==
    (last.op = "reflect" /\ last.queries # <<>> /\ Len(last.rows) # 1)
    => /\ last.raised = IF Len(last.rows) = 0 THEN "NoResultFound"
                        ELSE "MultipleResultsFound"
       /\ last.queries = <<"COLUMNS">>
       /\ column_info = last.before

C3_Witness ==
    /\ last.op = "reflect"
    /\ Len(last.rows) = 2
    /\ last.rows[1].DATA_TYPE \in PossibleTypeSet
    /\ last.raised = "MultipleResultsFound"
    /\ column_info.type = NullType

\* C9: the spatial_index flag of the descriptor is TRUE exactly when the
\* index-statistics query returned a value that spells "spatial" in some
\* letter case; without a row, or with another value, it is FALSE.
C9_SpatialIndexFlag ==
    DescriptorBuilt =>
        (column_info.type.spatial_index
            <=> /\ last.index_rows # <<>>
                /\ last.index_rows[1].t = "str"
                /\ last.index_rows[1].v \in CaseVariants(<<"s","p","a","t","i","a","l">>))

C9_Witness ==
    /\ DescriptorBuilt
    /\ last.index_rows = <<PyStr(<<"S","P","A","T","I","A","L">>)>>
    /\ column_info.type.spatial_index

\* The flag is FALSE when the column has no index at all.
C9_WitnessNoIndex ==
    /\ DescriptorBuilt
    /\ last.index_rows = <<>>
    /\ ~column_info.type.spatial_index

\* C10: the nullable flag of the descriptor is TRUE exactly when
\* IS_NULLABLE spells "yes" in some letter case.
C10_NullableFlag ==
    DescriptorBuilt =>
        (column_info.type.nullable
            <=> /\ last.rows[1].IS_NULLABLE.t = "str"
                /\ last.rows[1].IS_NULLABLE.v \in CaseVariants(<<"y","e","s">>))

C10_Witness ==
    /\ DescriptorBuilt
    /\ last.rows[1].IS_NULLABLE = PyStr(<<"Y","e","s">>)
    /\ column_info.type.nullable

(***************************************************************************)
(* Properties of the compilation adapter (checked under SpecCompile).      *)
(***************************************************************************)
\* The most recent operation compiled an element with a rule of this kind.
CompiledWith(kind) == compiled.op = "compile" /\ compiled.rule.kind = kind

\* C4: the from-text rule, which the module installs for ST_GeomFromText
\* and ST_GeomFromEWKT, renders
\*   geography::STGeomFromText(<compiled arguments>, <srid>)
\* with the declared srid when it is positive and 4326 otherwise.
C4_GeomFromTextRendering ==
    /\ \A n \in {"ST_GeomFromText", "ST_GeomFromEWKT"} :
          ModuleLoad[n].kind = "GeomFromText"
    /\ CompiledWith("GeomFromText") =>
          compiled.text =
              "geography::STGeomFromText("
                \o process(compiled.element.clauses) \o ", "
                \o (IF compiled.element.srid >= 1
                    THEN ToString(compiled.element.srid) ELSE "4326")
                \o ")"

C4_Witness ==
    /\ CompiledWith("GeomFromText")
    /\ compiled.element.name = "ST_GeomFromEWKT"
    /\ compiled.element.srid = 0
    /\ compiled.text = "geography::STGeomFromText('POINT(1 2)', 4326)"

\* C5: the from-binary rule, which the module installs for ST_GeomFromWKB
\* and ST_GeomFromEWKB, renders
\*   geography::STGeomFromWKB(<compiled arguments>, <srid>)
\* for a positive srid, and geography::STGeomFromWKB(<compiled arguments>)
\* with no srid argument otherwise.
C5_GeomFromWKBRendering ==
    /\ \A n \in {"ST_GeomFromWKB", "ST_GeomFromEWKB"} :
          ModuleLoad[n].kind = "GeomFromWKB"
    /\ CompiledWith("GeomFromWKB") =>
          compiled.text =
              IF compiled.element.srid >= 1
              THEN "geography::STGeomFromWKB("
                     \o process(compiled.processed) \o ", "
                     \o ToString(compiled.element.srid) \o ")"
              ELSE "geography::STGeomFromWKB("
                     \o process(compiled.processed) \o ")"

C5_Witness ==
    /\ CompiledWith("GeomFromWKB")
    /\ compiled.element.name = "ST_GeomFromWKB"
    /\ compiled.element.srid = 0
    /\ compiled.text = "geography::STGeomFromWKB(0x0101)"

\* The element with its first argument's value made bytes.
WithBytesFirst(element) ==
    [element EXCEPT !.clauses[1] = Literal("bytes", element.clauses[1].value)]

\* C6: the from-binary rule replaces a memoryview value of the first
\* argument by the equal bytes, in the element itself, before the
\* arguments are compiled; the text is the one the bytes give; a bytes
\* value, and the arguments after the first, are left as they are.
C6_MemoryviewNormalized ==
    CompiledWith("GeomFromWKB") =>
        LET first == compiled.element.clauses[1] IN
        /\ first.kind = "memoryview" =>
              /\ compiled.after.clauses[1] = Literal("bytes", first.value)
              /\ compiled.processed[1] = Literal("bytes", first.value)
              /\ compiled.text =
                    Compile(registry, WithBytesFirst(compiled.element)).text
        /\ first.kind # "memoryview" => compiled.after.clauses[1] = first
        /\ Len(compiled.after.clauses) = Len(compiled.element.clauses)
        /\ \A i \in 2..Len(compiled.element.clauses) :
              compiled.after.clauses[i] = compiled.element.clauses[i]

C6_Witness ==
    /\ CompiledWith("GeomFromWKB")
    /\ compiled.element.clauses[1] = Literal("memoryview", "0101")
    /\ compiled.after.clauses[1] = Literal("bytes", "0101")
    /\ compiled.text = "geography::STGeomFromWKB(0x0101, 4326)"

\* The text of a method-style rule for native name fn.
MethodText(element, fn) ==
    "(" \o process(element.clauses) \o ")." \o fn \o "()"

\* C7: once register_mssql_mapping(mapping) has returned, an invocation of
\* each name of the mapping compiles to (<compiled arguments>).<native>();
\* a rule the registrar installed renders that text whenever it is used;
\* after module load ST_AsBinary and ST_AsEWKB render with STAsBinary.
C7_RegisteredMethodRendering ==
    /\ (compiled.op = "register" /\ compiled.raised = "none") =>
          \A i \in 1..Len(compiled.mapping) : \A element \in Elements :
              element.name = compiled.mapping[i][1] =>
                  Compile(registry, element).text =
                      MethodText(element, compiled.mapping[i][2])
    /\ CompiledWith("method") =>
          compiled.text = MethodText(compiled.element, compiled.rule.fn)
    /\ \A element \in Elements :
          element.name \in {"ST_AsBinary", "ST_AsEWKB"} =>
              Compile(ModuleLoad, element).text =
                  MethodText(element, "STAsBinary")

C7_Witness ==
    /\ CompiledWith("method")
    /\ compiled.element.name = "ST_GeomFromText"
    /\ compiled.text = "('POINT(1 2)').STAsText()"

\* The entries of a mapping that a call reaches: all of them, or those
\* before the first name that is no function.
Reached(mapping) ==
    {i \in 1..Len(mapping) :
        \A j \in 1..i : mapping[j][1] \in Functions}

\* C8: a call of register_mssql_mapping sets the rule of each name it
\* registers to that entry's method rule, replacing the rule in force,
\* and leaves every other name's rule as it was; registering the same
\* mapping again changes no rule and no compiled text.
C8_LastWriteWinsIdempotent ==
    compiled.op = "register" =>
        /\ \A i \in Reached(compiled.mapping) :
              registry[compiled.mapping[i][1]] =
                  MethodRule(compiled.mapping[i][2])
        /\ \A f \in Functions :
              (\A i \in Reached(compiled.mapping) :
                    compiled.mapping[i][1] # f)
                  => registry[f] = compiled.before[f]
        /\ compiled.raised = "none" <=>
              Reached(compiled.mapping) = 1..Len(compiled.mapping)
        /\ register_mssql_mapping(registry, compiled.mapping).registry
              = registry

C8_Witness ==
    /\ compiled.op = "register"
    /\ compiled.raised = "none"
    /\ compiled.before["ST_AsBinary"] = MethodRule("STAsBinary")
    /\ registry["ST_AsBinary"] = MethodRule("STAsText")
    /\ registry["ST_AsEWKB"] = MethodRule("STAsBinary")
=============================================================================
